---- MODULE Spec2Model ----
(***************************************************************************)
(* Model of the provider abstraction layer of src/dev/infra.py and of the  *)
(* program src/dev/__main__.py that drives it.                             *)
(*                                                                         *)
(* Python values are modelled as records.  None is the record NoneVal;     *)
(* a dict is a function from its keys; a list is a sequence wrapped in a   *)
(* record [kind |-> "list", items |-> ...] wherever the attribute may also *)
(* hold None.  A call's outcome is a record with the exception it raised   *)
(* ("none" when it returned), the value it returned, the vendor SDK        *)
(* resources it created, and the receiver after the call.                  *)
(***************************************************************************)
EXTENDS Integers, Sequences, FiniteSets, TLC

VARIABLES providers, infra, last

vars == <<providers, infra, last>>

\* ---------------------------------------------------------------- bounds
MaxServers == 2
MaxSubnets == 2

\* ---------------------------------------------------------------- values
NoneVal == [kind |-> "None"]

ProviderIds == {"base_provider", "hetzner_provider", "scaleway_provider"}

KindOf(p) ==
  CASE p = "base_provider" -> "Provider"
    [] p = "hetzner_provider" -> "HCloudProvider"
    [] p = "scaleway_provider" -> "ScalewayProvider"

SSH_KEYS == <<"daniel@Daniels-MBP">>

HETZNER_LOCATION == "fsn1"

\* Server.__init__: the four attributes of a descriptor.
Server(name, size, image, ip_address) ==
  [kind |-> "Server", name |-> name, size |-> size, image |-> image,
   ip_address |-> ip_address]

\* The descriptors the calls draw from: two machines (one with a fixed
\* address, one without), each in every combination of a size and an image
\* that some, all or none of the providers' tables know.
ServerSizes == {"small", "tiny"}
ServerImages == {"rocky9", "ubuntu20"}

Servers ==
  {Server("xardas", s, i, "172.21.0.10") : s \in ServerSizes, i \in ServerImages}
    \cup {Server("diego", s, i, "None") : s \in ServerSizes, i \in ServerImages}

\* SecurityGroup.__init__
SecurityGroup(name, rules) == [kind |-> "SecurityGroup", name |-> name, rules |-> rules]

SecurityGroups == {SecurityGroup("web", <<>>), SecurityGroup("ssh", <<"tcp/22">>)}

\* Subnet dictionaries a network_config may list.
SubnetPool ==
  {[name |-> "subnet1", subnet_ip_range |-> "172.21.0.0/24"],
   [name |-> "subnet2", subnet_ip_range |-> "172.21.1.0/24"]}

RECURSIVE SeqsUpTo(_, _)
SeqsUpTo(S, n) ==
  IF n = 0 THEN {<<>>}
  ELSE LET shorter == SeqsUpTo(S, n - 1)
       IN shorter \cup {Append(q, x) : q \in shorter, x \in S}

\* provider_config dictionaries.  A key that is absent from the dictionary
\* is recorded by has_subnets / has_location = FALSE.
Config(range, hasSub, subs, hasLoc) ==
  [private_ip_range |-> range, has_subnets |-> hasSub, subnets |-> subs,
   has_location |-> hasLoc, location |-> IF hasLoc THEN HETZNER_LOCATION ELSE "absent"]

HetznerConfigs ==
  {Config("172.21.0.0/16", TRUE, q, TRUE) : q \in SeqsUpTo(SubnetPool, MaxSubnets)}
    \cup {Config("172.21.0.0/16", FALSE, <<>>, TRUE),
          Config("172.21.0.0/16", TRUE, <<>>, FALSE)}

ScalewayConfigs ==
  {Config("172.22.0.0/16", FALSE, <<>>, FALSE),
   Config("172.22.0.0/16", TRUE, <<CHOOSE s \in SubnetPool : s.name = "subnet1">>, FALSE)}

ConfigsOf(p) ==
  CASE p = "hetzner_provider" -> HetznerConfigs
    [] p = "scaleway_provider" -> ScalewayConfigs
    [] OTHER -> {Config("10.0.0.0/8", FALSE, <<>>, FALSE)}

\* ------------------------------------------------------- translation tables
Provider_set_sizes ==
  [k \in {"small", "medium", "large", "xlarge"} |->
     CASE k = "small" -> "instance_type_small"
       [] k = "medium" -> "instance_type_medium"
       [] k = "large" -> "instance_type_large"
       [] k = "xlarge" -> "instance_type_xlarge"]

Provider_set_images ==
  [k \in {"ubuntu20", "debian11", "rocky9"} |->
     CASE k = "ubuntu20" -> "ubuntu_20_04"
       [] k = "debian11" -> "debian_11"
       [] k = "rocky9" -> "rocky_9"]

HCloud_set_images ==
  [k \in {"ubuntu22", "debian11", "rocky9", "centos7"} |->
     CASE k = "ubuntu22" -> "ubuntu-20.04"
       [] k = "debian11" -> "debian-11"
       [] k = "rocky9" -> "rocky-9"
       [] k = "centos7" -> "centos-7"]

HCloud_set_sizes ==
  [k \in {"small", "medium", "large", "xlarge"} |->
     CASE k = "small" -> "cx11"
       [] k = "medium" -> "cx21"
       [] k = "large" -> "cx31"
       [] k = "xlarge" -> "cx41"]

Scaleway_set_images ==
  [k \in {"ubuntu22", "debian11", "rocky9", "centos7"} |->
     CASE k = "ubuntu22" -> "ubuntu_jammy"
       [] k = "debian11" -> "debian_bullseye"
       [] k = "rocky9" -> "rockylinux_9"
       [] k = "centos7" -> "centos_7.9"]

Scaleway_set_sizes ==
  [k \in {"small", "medium", "large", "xlarge"} |->
     CASE k = "small" -> "DEV1-S"
       [] k = "medium" -> "DEV1-M"
       [] k = "large" -> "DEV1-L"
       [] k = "xlarge" -> "DEV1-XL"]

\* Method resolution: the subclass's override where there is one.
set_sizes(self) ==
  CASE self.kind = "HCloudProvider" -> [self EXCEPT !.sizes = HCloud_set_sizes]
    [] self.kind = "ScalewayProvider" -> [self EXCEPT !.sizes = Scaleway_set_sizes]
    [] OTHER -> [self EXCEPT !.sizes = Provider_set_sizes]

set_images(self) ==
  CASE self.kind = "HCloudProvider" -> [self EXCEPT !.images = HCloud_set_images]
    [] self.kind = "ScalewayProvider" -> [self EXCEPT !.images = Scaleway_set_images]
    [] OTHER -> [self EXCEPT !.images = Provider_set_images]

\* ------------------------------------------------------------ object state
Unset == [kind |-> "unset"]

List(items) == [kind |-> "list", items |-> items]

EmptyDict == [k \in {} |-> ""]

\* A provider object before its constructor has run: no attribute is set.
\* calls is the order in which the constructor has invoked the provider's
\* methods.
NewProvider(p) ==
  [kind |-> KindOf(p), status |-> "unconstructed", ssh_keys |-> Unset,
   provider_config |-> Unset, sizes |-> EmptyDict, images |-> EmptyDict,
   network |-> Unset, subnets |-> Unset, servers |-> Unset, calls |-> <<>>]

Called(self, method) == [self EXCEPT !.calls = Append(@, method)]

Outcome(self, err, ret, sdk) == [self |-> self, err |-> err, ret |-> ret, sdk |-> sdk]

\* ------------------------------------------------------ vendor SDK resources
hcloud_Network(name, ip_range) ==
  [kind |-> "hcloud.Network", name |-> name, id |-> name, ip_range |-> ip_range]

hcloud_NetworkSubnet(name, network_id, ip_range) ==
  [kind |-> "hcloud.NetworkSubnet", name |-> name, network_id |-> network_id,
   ip_range |-> ip_range, network_zone |-> "eu-central", type |-> "cloud"]

hcloud_Server(name, server_type, image, ssh_keys, network_id, ip, location) ==
  [kind |-> "hcloud.Server", name |-> name, server_type |-> server_type,
   image |-> image, ssh_keys |-> ssh_keys, network_id |-> network_id,
   ip |-> ip, location |-> location]

scaleway_InstanceIp(name) == [kind |-> "scaleway.InstanceIp", name |-> name, id |-> name]

scaleway_InstanceServer(name, image, type, ip_id) ==
  [kind |-> "scaleway.InstanceServer", name |-> name, image |-> image,
   type |-> type, ip_id |-> ip_id]

\* --------------------------------------------------- network provisioning
Provider_provision_private_network(self) == Outcome(self, "none", NoneVal, <<>>)

HCloud_provision_private_network(self) ==
  LET net == hcloud_Network("network", self.provider_config.private_ip_range)
  IN Outcome(self, "none", net, <<net>>)

provision_private_network(self) ==
  IF self.kind = "HCloudProvider"
  THEN HCloud_provision_private_network(Called(self, "provision_private_network"))
  ELSE Provider_provision_private_network(Called(self, "provision_private_network"))

Provider_provision_private_subnets(self) == Outcome(self, "none", NoneVal, <<>>)

\* Variant of the loop that inserts each handle at the front of ret.
RECURSIVE SubnetLoop_prepend(_, _, _)
SubnetLoop_prepend(self, subnets, ret) ==
  IF subnets = <<>> THEN ret
  ELSE LET subnet == Head(subnets)
       IN SubnetLoop_prepend(self, Tail(subnets),
                             <<hcloud_NetworkSubnet(subnet.name, self.network.id,
                                                    subnet.subnet_ip_range)>> \o ret)

\* The loop of HCloudProvider.provision_private_subnets: ret.append(...) for
\* each subnet of the configuration, in iteration order.
RECURSIVE SubnetLoop(_, _, _)
SubnetLoop(self, subnets, ret) ==
  IF subnets = <<>> THEN ret
  ELSE LET subnet == Head(subnets)
       IN SubnetLoop(self, Tail(subnets),
                     Append(ret, hcloud_NetworkSubnet(subnet.name, self.network.id,
                                                      subnet.subnet_ip_range)))

HCloud_provision_private_subnets(self) ==
  IF ~self.provider_config.has_subnets
  THEN Outcome(self, "KeyError", NoneVal, <<>>)
  ELSE IF self.provider_config.subnets /= <<>> /\ self.network.kind /= "hcloud.Network"
  THEN Outcome(self, "AttributeError", NoneVal, <<>>)
  ELSE LET ret == SubnetLoop(self, self.provider_config.subnets, <<>>)
       IN Outcome(self, "none", List(ret), ret)

provision_private_subnets(self) ==
  IF self.kind = "HCloudProvider"
  THEN HCloud_provision_private_subnets(Called(self, "provision_private_subnets"))
  ELSE Provider_provision_private_subnets(Called(self, "provision_private_subnets"))

\* ------------------------------------------------------------ construction
\* Variant of the constructor that provisions the subnets before the network.
Provider_init_subnets_first(self0, ssh_keys, provider_config) ==
  LET a == [self0 EXCEPT !.ssh_keys = List(ssh_keys), !.provider_config = provider_config]
      b == set_sizes(Called(a, "set_sizes"))
      c == set_images(Called(b, "set_images"))
      sub == provision_private_subnets(c)
      d == [sub.self EXCEPT !.subnets = sub.ret]
      net == provision_private_network(d)
      e == [net.self EXCEPT !.network = net.ret]
      f == [e EXCEPT !.servers = List(<<>>), !.status = "ready"]
  IN IF sub.err /= "none"
     THEN Outcome([sub.self EXCEPT !.status = "failed"], sub.err, NoneVal, sub.sdk)
     ELSE IF net.err /= "none"
     THEN Outcome([net.self EXCEPT !.status = "failed"], net.err, NoneVal, sub.sdk \o net.sdk)
     ELSE Outcome(f, "none", NoneVal, sub.sdk \o net.sdk)

\* Provider.__init__: the outcome's self is the object as the constructor
\* left it; on an exception the object is never bound to a name (status
\* "failed").
Provider_init(self0, ssh_keys, provider_config) ==
  LET a == [self0 EXCEPT !.ssh_keys = List(ssh_keys), !.provider_config = provider_config]
      b == set_sizes(Called(a, "set_sizes"))
      c == set_images(Called(b, "set_images"))
      net == provision_private_network(c)
      d == [net.self EXCEPT !.network = net.ret]
      sub == provision_private_subnets(d)
      e == [sub.self EXCEPT !.subnets = sub.ret]
      f == [e EXCEPT !.servers = List(<<>>), !.status = "ready"]
  IN IF net.err /= "none"
     THEN Outcome([net.self EXCEPT !.status = "failed"], net.err, NoneVal, net.sdk)
     ELSE IF sub.err /= "none"
     THEN Outcome([sub.self EXCEPT !.status = "failed"], sub.err, NoneVal, net.sdk \o sub.sdk)
     ELSE Outcome(f, "none", NoneVal, net.sdk \o sub.sdk)

\* ------------------------------------------------------------- validation
\* Variant of the check that accepts a server when either key is known.
server_object_is_valid_either(self, server) ==
  IF server.image \in DOMAIN self.images \/ server.size \in DOMAIN self.sizes
  THEN TRUE
  ELSE FALSE

server_object_is_valid(self, server) ==
  IF server.image \in DOMAIN self.images /\ server.size \in DOMAIN self.sizes
  THEN TRUE
  ELSE FALSE

\* ------------------------------------------------------ server provisioning
\* sdk_fail is the index of the vendor SDK resource constructor that raises
\* during the call (0: none does).
SdkFailAt == 0 .. 2

\* HCloudProvider.provision_server.  The arguments of hcloud.Server are
\* evaluated before the resource is created, provider_config["location"]
\* last.
HCloud_provision_server(self, server, sdk_fail) ==
  IF server_object_is_valid(self, server)
  THEN IF ~self.provider_config.has_location
       THEN Outcome(self, "KeyError", NoneVal, <<>>)
       ELSE IF sdk_fail = 1
       THEN Outcome(self, "SdkError", NoneVal, <<>>)
       ELSE LET server_instance ==
                  hcloud_Server(server.name, self.sizes[server.size],
                                self.images[server.image], self.ssh_keys,
                                self.network.id, server.ip_address,
                                self.provider_config.location)
            IN Outcome([self EXCEPT !.servers.items = Append(@, server_instance)],
                       "none", NoneVal, <<server_instance>>)
  ELSE Outcome(self, "Exception", NoneVal, <<>>)

\* f"public_ip_{server.name}"
PublicIpName(name) ==
  CASE name = "xardas" -> "public_ip_xardas"
    [] name = "diego" -> "public_ip_diego"
    [] OTHER -> "public_ip_"

\* ScalewayProvider.provision_server: server_instance is created and then
\* the descriptor is what the method appends.
Scaleway_provision_server(self, server, sdk_fail) ==
  IF server_object_is_valid(self, server)
  THEN IF sdk_fail = 1
       THEN Outcome(self, "SdkError", NoneVal, <<>>)
       ELSE LET ip == scaleway_InstanceIp(PublicIpName(server.name))
                server_instance ==
                  scaleway_InstanceServer(server.name, self.images[server.image],
                                          self.sizes[server.size], ip.id)
            IN IF sdk_fail = 2
               THEN Outcome(self, "SdkError", NoneVal, <<ip>>)
               ELSE Outcome([self EXCEPT !.servers.items = Append(@, server)],
                            "none", NoneVal, <<ip, server_instance>>)
  ELSE Outcome(self, "Exception", NoneVal, <<>>)

provision_server(self, server, sdk_fail) ==
  IF self.kind = "HCloudProvider"
  THEN HCloud_provision_server(self, server, sdk_fail)
  ELSE Scaleway_provision_server(self, server, sdk_fail)

\* Provider.provision_security_group, inherited by both subclasses: pass.
provision_security_group(self, security_group) == Outcome(self, "none", NoneVal, <<>>)

\* ------------------------------------------------------------------ Infra
\* The dictionary src/dev/__main__.py passes to Infra: key -> provider object.
MainProviders ==
  [k \in {"hetzner", "scaleway"} |->
     IF k = "hetzner" THEN "hetzner_provider" ELSE "scaleway_provider"]

ProviderNames == {"hetzner", "scaleway", "nonexistent"}

Infra_init(provs) == [status |-> "ready", providers |-> provs]

\* Variant of Infra.provision_server that catches what the provider raises.
Infra_provision_server_swallow(self, objs, server, provider_name, sdk_fail) ==
  IF provider_name \notin DOMAIN self.providers
  THEN [objs |-> objs, err |-> "KeyError", ret |-> NoneVal, sdk |-> <<>>, invoked |-> <<>>]
  ELSE LET target == self.providers[provider_name]
           o == provision_server(objs[target], server, sdk_fail)
       IN [objs |-> [objs EXCEPT ![target] = o.self], err |-> "none",
           ret |-> NoneVal, sdk |-> o.sdk, invoked |-> <<target>>]

\* Infra.provision_server: self.providers[provider_name].provision_server(server).
\* objs is the heap (provider id -> object); the outcome carries the heap
\* after the call and the objects whose provision_server was invoked.
Infra_provision_server(self, objs, server, provider_name, sdk_fail) ==
  IF provider_name \notin DOMAIN self.providers
  THEN [objs |-> objs, err |-> "KeyError", ret |-> NoneVal, sdk |-> <<>>, invoked |-> <<>>]
  ELSE LET target == self.providers[provider_name]
           o == provision_server(objs[target], server, sdk_fail)
       IN [objs |-> [objs EXCEPT ![target] = o.self], err |-> o.err,
           ret |-> NoneVal, sdk |-> o.sdk, invoked |-> <<target>>]

\* ------------------------------------------------------------------ state
Event(op, prov, arg, server, o, invoked, valid) ==
  [op |-> op, prov |-> prov, arg |-> arg, server |-> server, err |-> o.err,
   ret |-> o.ret, sdk |-> o.sdk, invoked |-> invoked, valid |-> valid]

Init ==
  /\ providers = [p \in ProviderIds |-> NewProvider(p)]
  /\ infra = [status |-> "unconstructed", providers |-> EmptyDict]
  /\ last = Event("start", "", "", NoneVal, Outcome(NoneVal, "none", NoneVal, <<>>), <<>>, FALSE)

Ready(p) == providers[p].status = "ready"

\* The run provisions at most MaxServers servers over all providers.
Count(p) ==
  IF providers[p].servers.kind = "list" THEN Len(providers[p].servers.items) ELSE 0

Provisioned == Count("hetzner_provider") + Count("scaleway_provider")

HasRoom == Provisioned < MaxServers

\* hetzner_provider = infra.HCloudProvider(SSH_KEYS, hetzner_config) etc.
Construct(p) ==
  /\ providers[p].status = "unconstructed"
  /\ \E cfg \in ConfigsOf(p) :
       LET o == Provider_init(providers[p], SSH_KEYS, cfg)
       IN /\ providers' = [providers EXCEPT ![p] = o.self]
          /\ last' = Event("construct", p, "", NoneVal, o, <<>>, FALSE)
  /\ UNCHANGED infra

\* infra = infra.Infra(providers), after both providers were constructed.
CreateInfra ==
  /\ infra.status = "unconstructed"
  /\ \A k \in DOMAIN MainProviders : Ready(MainProviders[k])
  /\ infra' = Infra_init(MainProviders)
  /\ last' = Event("Infra", "", "", NoneVal, Outcome(NoneVal, "none", NoneVal, <<>>), <<>>, FALSE)
  /\ UNCHANGED providers

\* Variant of the validation call that takes the image's entry out of the
\* provider's table while looking it up.
ValidateServer_pop(p, server) ==
  /\ Ready(p)
  /\ last' = Event("server_object_is_valid", p, "", server,
                   Outcome(NoneVal, "none", NoneVal, <<>>), <<>>,
                   server_object_is_valid(providers[p], server))
  /\ providers' = [providers EXCEPT ![p].images =
                     [k \in (DOMAIN @) \ {server.image} |-> @[k]]]
  /\ UNCHANGED infra

ValidateServer(p, server) ==
  /\ Ready(p)
  /\ last' = Event("server_object_is_valid", p, "", server,
                   Outcome(NoneVal, "none", NoneVal, <<>>), <<>>,
                   server_object_is_valid(providers[p], server))
  /\ UNCHANGED <<providers, infra>>

ProvisionServer(p, server, sdk_fail) ==
  /\ Ready(p) /\ HasRoom
  /\ LET o == provision_server(providers[p], server, sdk_fail)
     IN /\ providers' = [providers EXCEPT ![p] = o.self]
        /\ last' = Event("provision_server", p, "", server, o, <<p>>, FALSE)
  /\ UNCHANGED infra

InfraProvisionServer(server, provider_name, sdk_fail) ==
  /\ infra.status = "ready"
  /\ HasRoom
  /\ LET o == Infra_provision_server(infra, providers, server, provider_name, sdk_fail)
     IN /\ providers' = o.objs
        /\ last' = Event("Infra.provision_server", "", provider_name, server, o, o.invoked, FALSE)
  /\ UNCHANGED infra

ProvisionSecurityGroup(p, security_group) ==
  /\ Ready(p)
  /\ LET o == provision_security_group(providers[p], security_group)
     IN /\ providers' = [providers EXCEPT ![p] = o.self]
        /\ last' = Event("provision_security_group", p, "", security_group, o, <<>>, FALSE)
  /\ UNCHANGED infra

Next ==
  \/ \E p \in ProviderIds : Construct(p)
  \/ CreateInfra
  \/ \E p \in ProviderIds, server \in Servers : ValidateServer(p, server)
  \/ \E p \in {"hetzner_provider", "scaleway_provider"}, server \in Servers,
        sdk_fail \in SdkFailAt : ProvisionServer(p, server, sdk_fail)
  \/ \E server \in Servers, provider_name \in ProviderNames, sdk_fail \in SdkFailAt :
        InfraProvisionServer(server, provider_name, sdk_fail)
  \/ \E p \in ProviderIds, security_group \in SecurityGroups :
        ProvisionSecurityGroup(p, security_group)

Spec == Init /\ [][Next]_vars

\* ================================================================= claims
InitCalls ==
  <<"set_sizes", "set_images", "provision_private_network", "provision_private_subnets">>

Concrete == {"hetzner_provider", "scaleway_provider"}

\* C1: server_object_is_valid answers true exactly when the server's size
\* is a key of the provider's size table and its image is a key of the
\* provider's image table, for the base, Hetzner and Scaleway providers;
\* the name and the address play no part.
C1_ValidIffKeys ==
  last.op = "server_object_is_valid" =>
    LET self == providers[last.prov]
        sizeKeys == {"small", "medium", "large", "xlarge"}
        imageKeys == IF self.kind = "Provider"
                     THEN {"ubuntu20", "debian11", "rocky9"}
                     ELSE {"ubuntu22", "debian11", "rocky9", "centos7"}
    IN /\ DOMAIN self.sizes = sizeKeys
       /\ DOMAIN self.images = imageKeys
       /\ last.valid <=> (last.server.size \in sizeKeys /\ last.server.image \in imageKeys)

\* C1 witness: Hetzner rejects a server whose size it knows and whose image
\* it does not.
C1_Witness ==
  /\ last.op = "server_object_is_valid"
  /\ last.prov = "hetzner_provider"
  /\ last.server.size = "small"
  /\ last.server.image = "ubuntu20"
  /\ ~last.valid

\* C2 (as claimed): a provision_server call with a server that fails
\* validation raises InvalidResourceError, creates no vendor resource and
\* leaves the provider's server list as it was.
C2_InvalidRaisesInvalidResourceError ==
  [][\A p \in Concrete :
       (last'.op = "provision_server" /\ last'.prov = p
          /\ ~server_object_is_valid(providers[p], last'.server))
       => /\ providers'[p].servers = providers[p].servers
          /\ last'.sdk = <<>>
          /\ last'.err = "InvalidResourceError"]_vars

\* C3 (as claimed): Infra.provision_server with a name that is not a key of
\* the provider mapping raises UnknownProviderError, invokes no provider,
\* creates no vendor resource and changes neither the mapping nor any
\* provider.
C3_UnknownRaisesUnknownProviderError ==
  [][(last'.op = "Infra.provision_server" /\ last'.arg \notin DOMAIN infra.providers)
       => /\ providers' = providers
          /\ infra' = infra
          /\ last'.invoked = <<>>
          /\ last'.sdk = <<>>
          /\ last'.err = "UnknownProviderError"]_vars

\* C4 (as claimed): a provision_server call that succeeds appends exactly
\* one element to the provider's server list, the handle the vendor SDK
\* returned for the server created with the translated size and image, not
\* the descriptor; the earlier elements stay.
C4_SuccessAppendsHandle ==
  [][\A p \in Concrete :
       (last'.op \in {"provision_server", "Infra.provision_server"}
          /\ last'.invoked = <<p>> /\ last'.err = "none")
       => LET h == last'.sdk[Len(last'.sdk)]
          IN /\ h.kind \in {"hcloud.Server", "scaleway.InstanceServer"}
             /\ h.image = providers[p].images[last'.server.image]
             /\ (IF h.kind = "hcloud.Server" THEN h.server_type ELSE h.type)
                  = providers[p].sizes[last'.server.size]
             /\ providers'[p].servers.items = Append(providers[p].servers.items, h)]_vars

\* C5 (as claimed): a provider without subnet support (one that does not
\* override provision_private_subnets) never has provision_private_subnets
\* called on it, its construction included.
C5_NoSubnetCallWithoutSupport ==
  \A p \in ProviderIds :
    providers[p].kind /= "HCloudProvider" =>
      \A i \in 1 .. Len(providers[p].calls) :
        providers[p].calls[i] /= "provision_private_subnets"

\* C6: every provider's network and subnets are provisioned exactly once,
\* by its constructor, the network first; a provider on which
\* provision_server runs has been constructed and has its network, subnets
\* and server list set.
C6_ProvisionedOnceBeforeServers ==
  /\ \A p \in ProviderIds :
       /\ providers[p].status = "unconstructed" => providers[p].calls = <<>>
       /\ providers[p].status /= "unconstructed" => providers[p].calls = InitCalls
       /\ providers[p].status = "ready" =>
            /\ providers[p].network /= Unset
            /\ providers[p].subnets /= Unset
            /\ providers[p].servers.kind = "list"
  /\ \A i \in 1 .. Len(last.invoked) : providers[last.invoked[i]].status = "ready"
  /\ last.op = "provision_server" => providers[last.prov].status = "ready"

\* C6 witness: a server was provisioned through Infra on the Hetzner
\* provider, whose constructor had created a network and a subnet.
C6_Witness ==
  /\ last.op = "Infra.provision_server"
  /\ last.invoked = <<"hetzner_provider">>
  /\ last.err = "none"
  /\ providers["hetzner_provider"].network.kind = "hcloud.Network"
  /\ Len(providers["hetzner_provider"].subnets.items) >= 1

\* C7 (as claimed): provision_security_group on a provider that does not
\* implement it raises UnsupportedOperationError.
C7_SecurityGroupUnsupported ==
  last.op = "provision_security_group" => last.err = "UnsupportedOperationError"

\* C8: a server_object_is_valid call changes no attribute of any provider
\* and nothing of Infra, and two consecutive calls with the same provider
\* and server give the same answer.
C8_ValidatePure ==
  [][last'.op = "server_object_is_valid"
       => /\ providers' = providers
          /\ infra' = infra
          /\ (last.op = "server_object_is_valid" /\ last.prov = last'.prov
                /\ last.server = last'.server) => last'.valid = last.valid]_vars

\* C8 witness: a validation that answered true on a provider that already
\* holds a provisioned server.
C8_Witness ==
  /\ last.op = "server_object_is_valid"
  /\ last.valid
  /\ last.prov \in Concrete
  /\ Count(last.prov) > 0

C10_SubnetsInOrder ==
  LET self == providers["hetzner_provider"]
  IN self.status = "ready" =>
       /\ self.subnets.kind = "list"
       /\ Len(self.subnets.items) = Len(self.provider_config.subnets)
       /\ \A i \in 1 .. Len(self.provider_config.subnets) :
            /\ self.subnets.items[i].kind = "hcloud.NetworkSubnet"
            /\ self.subnets.items[i].name = self.provider_config.subnets[i].name
            /\ self.subnets.items[i].ip_range = self.provider_config.subnets[i].subnet_ip_range
            /\ self.subnets.items[i].network_id = self.network.id

\* C10 witness: a Hetzner provider built from two different subnets.
C10_Witness ==
  LET self == providers["hetzner_provider"]
  IN /\ self.status = "ready"
     /\ Len(self.provider_config.subnets) = 2
     /\ self.provider_config.subnets[1] /= self.provider_config.subnets[2]
     /\ Len(self.subnets.items) = 2

====
